---- MODULE Spec2Model ----
(***************************************************************************)
(* md2html site build pipeline (bouquet2/krea.to, md2html/pkg/converter):  *)
(* ConvertDirectory and the recursive directory walk of processFiles, with *)
(* the path helpers of paths.go, the index generation of templates.go and  *)
(* the feed and tag generation of rss.go / tags.go.                        *)
(*                                                                         *)
(* A path is a sequence of its segments: "dist/blog/Linux" is              *)
(* <<"dist","blog","Linux">>, a leading "/" is an empty first segment, and *)
(* "../" prepended to a path is the segment ".." prepended to it.          *)
(***************************************************************************)
EXTENDS Integers, Sequences, FiniteSets, TLC

(***************************************************************************)
(* Bounds of the model.                                                    *)
(***************************************************************************)
\* Deepest directory level of the source tree, counted from the source root.
MaxNest == 3

(***************************************************************************)
(* Sequence helpers.                                                       *)
(***************************************************************************)
Last(s) == s[Len(s)]

Front(s) == SubSeq(s, 1, Len(s) - 1)

Range(s) == {s[i] : i \in 1..Len(s)}

IsPrefix(p, s) == Len(p) <= Len(s) /\ SubSeq(s, 1, Len(p)) = p

\* strings.Repeat("../", n) as path segments
Ups(n) == [i \in 1..n |-> ".."]

(***************************************************************************)
(* Path helpers of the standard library, as the code uses them.            *)
(***************************************************************************)
\* filepath.Clean of a joined path: ".." removes the segment before it; a ".."
\* that has nothing to remove stays (the path leaves its base).
RECURSIVE CleanFrom(_, _)
CleanFrom(done, rest) ==
    IF rest = <<>> THEN done
    ELSE IF Head(rest) = ".." /\ done # <<>> /\ Last(done) # ".."
         THEN CleanFrom(Front(done), Tail(rest))
         ELSE CleanFrom(Append(done, Head(rest)), Tail(rest))

\* a browser resolving the relative reference ref against the directory dir
Resolve(dir, ref) == CleanFrom(<<>>, dir \o ref)

\* length of the longest common prefix of two paths
RECURSIVE CommonLen(_, _)
CommonLen(a, b) ==
    IF a = <<>> \/ b = <<>> \/ Head(a) # Head(b) THEN 0
    ELSE 1 + CommonLen(Tail(a), Tail(b))

\* filepath.Rel(base, target) for two clean absolute paths; <<>> stands for "."
Rel(base, target) ==
    LET c == CommonLen(base, target)
    IN  Ups(Len(base) - c) \o SubSeq(target, c + 1, Len(target))

\* the first index of a segment equal to "blog", 0 when there is none
\* (the code's blogIndex, which is 0-based with -1 for "none")
BlogIndex(comps) ==
    IF \E i \in 1..Len(comps) : comps[i] = "blog"
    THEN CHOOSE i \in 1..Len(comps) :
            comps[i] = "blog" /\ \A j \in 1..(i - 1) : comps[j] # "blog"
    ELSE 0

\* outComponents[blogIndex:], empty when there is no "blog" segment
BlogComponents(comps) ==
    IF BlogIndex(comps) = 0 THEN <<>>
    ELSE SubSeq(comps, BlogIndex(comps), Len(comps))

(***************************************************************************)
(* paths.go                                                                *)
(***************************************************************************)
HasHTTPPrefix(path) == path # <<>> /\ Head(path) \in {"http:", "https:"}

HasSlashPrefix(path) == path # <<>> /\ Head(path) = ""

\* directory names that end in the letters "blog": strings.Contains(dir, "blog/")
\* is true of a path with such a segment before its last one
BlogSuffixed == {"blog", "myblog"}

\* the indices of the segments of abs at which the text "blog/" occurs
BlogSlashAt(abs) == {i \in 1..(Len(abs) - 1) : abs[i] \in BlogSuffixed}

\* the number of non-empty pieces of segments[1] in calculatePathDepth, where
\* segments = strings.Split(absCurrentDir, "blog/")
BlogSubSegments(abs) ==
    LET occ == BlogSlashAt(abs)
        i1  == CHOOSE i \in occ : \A j \in occ : i <= j
        later == {j \in occ : j > i1}
        i2  == CHOOSE i \in later : \A j \in later : i <= j
    IN  IF occ = {} THEN 0
        ELSE IF later = {} THEN Len(abs) - i1
        ELSE (i2 - i1 - 1) + (IF abs[i2] = "blog" THEN 0 ELSE 1)

calculatePathDepth(inputDir, inputRoot) ==
    IF inputRoot = inputDir THEN 0
    ELSE LET depth == Len(Rel(inputRoot, inputDir))
             sub   == BlogSubSegments(inputDir)
         IN  IF sub > 0 THEN sub ELSE depth

\* one asset path of adjustPaths' generic (non-blog) branch
AdjustOne(path, depth) ==
    IF HasHTTPPrefix(path) THEN path
    ELSE IF depth > 0
         THEN IF HasSlashPrefix(path) THEN Ups(depth) \o Tail(path)
              ELSE Ups(depth) \o path
         ELSE IF HasSlashPrefix(path) THEN Tail(path) ELSE path

adjustPaths(config, depth, outputDir) ==
    LET blogComponents == BlogComponents(outputDir)
    IN  IF BlogIndex(outputDir) > 0 /\ Len(blogComponents) = 2
        THEN [config EXCEPT !.CSSPath = <<"..", "..", "css", "style.css">>,
                            !.JSPath  = <<"..", "..", "js", "script.js">>]
        ELSE IF BlogIndex(outputDir) > 0 /\ Len(blogComponents) > 2
        THEN [config EXCEPT
                !.CSSPath = Ups(Len(blogComponents) - 1) \o <<"css", "style.css">>,
                !.JSPath  = Ups(Len(blogComponents) - 1) \o <<"js", "script.js">>]
        ELSE [config EXCEPT !.CSSPath = AdjustOne(config.CSSPath, depth),
                            !.JSPath  = AdjustOne(config.JSPath, depth)]

calculateBackURL(depth) ==
    IF depth <= 0 THEN <<>>
    ELSE IF depth = 1 THEN <<"..", "index.html">>
    ELSE Ups(depth) \o <<"index.html">>

\* prependPathPrefix(path, depth), as files.go and tags.go use it: its callers
\* hand it an asset path that an ancestor directory has already prefixed and
\* state the total number of levels they expect ("blog/ = 1 level up,
\* blog/X/ = 2 levels up"), so it yields the configured path under exactly
\* `depth` "../" segments; an http(s) URL is never prefixed.
RECURSIVE StripUps(_)
StripUps(path) ==
    IF path # <<>> /\ Head(path) = ".." THEN StripUps(Tail(path)) ELSE path

prependPathPrefix(path, depth) ==
    IF HasHTTPPrefix(path) THEN path
    ELSE LET base == StripUps(path)
         IN  Ups(depth) \o (IF HasSlashPrefix(base) THEN Tail(base) ELSE base)

(***************************************************************************)
(* The source tree and the build's environment.                            *)
(*                                                                         *)
(* A directory is named by its path below the source root md/.  ReadDir    *)
(* lists a directory's entries sorted by file name (os.ReadDir), which is  *)
(* the order the listings below are written in.                            *)
(***************************************************************************)
\* absolute path of the source root
SrcRoot == <<"", "home", "site", "md">>

NoGit == [ok |-> FALSE, day |-> "", sec |-> 0]

Git(day, sec) == [ok |-> TRUE, day |-> day, sec |-> sec]

\* a subdirectory entry
D(name) ==
    [name |-> name, isDir |-> TRUE, stem |-> <<name>>, ext |-> "",
     landing |-> FALSE, title |-> "", date |-> "", tags |-> <<>>, git |-> NoGit]

\* a file entry: stem and extension, and for a Markdown file its front-matter
\* (Template: landing, Title, Date, Tags) and its version-control history
F(name, stem, ext, landing, title, date, tags, git) ==
    [name |-> name, isDir |-> FALSE, stem |-> stem, ext |-> ext,
     landing |-> landing, title |-> title, date |-> date, tags |-> tags,
     git |-> git]

RawListing(dir) ==
    CASE dir = <<>> ->
           << D("a"),
              F("about.md", <<"about">>, ".md", FALSE, "About", "2023-07-01",
                <<>>, Git("2024-03-09", 5)),
              D("blog"),
              F("index.md", <<"index">>, ".md", TRUE, "Home", "", <<>>, NoGit),
              D("old"), D("void") >>
      [] dir = <<"a">> ->
           << D("b"),
              F("doc.md", <<"doc">>, ".md", FALSE, "", "", <<>>,
                Git("2024-01-05", 7)),
              F("index.md", <<"index">>, ".md", FALSE, "A", "2022-12-31",
                <<>>, NoGit) >>
      [] dir = <<"a", "b">> ->
           << D("c"),
              F("my post.md", <<"my", " ", "post">>, ".md", FALSE, "", "Jan 5",
                <<>>, NoGit) >>
      [] dir = <<"a", "b", "c">> ->
           << D("d"),
              F("doc.md", <<"doc">>, ".md", FALSE, "C doc", "2024-01-05",
                <<>>, NoGit),
              F("notes.txt", <<"notes">>, ".txt", FALSE, "", "", <<>>, NoGit) >>
      [] dir = <<"a", "b", "c", "d">> ->
           << F("deep.markdown", <<"deep">>, ".markdown", FALSE, "", "", <<>>,
                NoGit) >>
      [] dir = <<"blog">> ->
           << D("Empty"), D("Linux"), D("Nim"),
              F("intro.md", <<"intro">>, ".md", FALSE, "Intro", "2023-07-01",
                <<"index">>, NoGit) >>
      [] dir = <<"blog", "Linux">> ->
           << D("Deep"),
              F("p1.md", <<"p1">>, ".md", FALSE, "P1", "2024-01-05",
                <<"linux">>, Git("2022-12-31", 3)),
              F("p2.md", <<"p2">>, ".md", FALSE, "", "", <<"linux", "go">>,
                Git("2024-03-09", 9)) >>
      [] dir = <<"blog", "Linux", "Deep">> ->
           << D("Er"),
              F("d.md", <<"d">>, ".md", FALSE, "", "", <<"go">>, NoGit) >>
      [] dir = <<"blog", "Linux", "Deep", "Er">> ->
           << F("e.md", <<"e">>, ".md", FALSE, "E", "2022-12-31", <<>>,
                NoGit) >>
      [] dir = <<"blog", "Nim">> ->
           << F("home.md", <<"home">>, ".md", TRUE, "", "", <<>>, NoGit),
              F("n.md", <<"n">>, ".md", FALSE, "N", "2022-12-31", <<>>,
                NoGit),
              F("old.md", <<"old">>, ".md", FALSE, "Old", "Jan 5", <<>>,
                NoGit) >>
      [] dir = <<"old">> ->
           << D("blog"),
              F("index.markdown", <<"index">>, ".markdown", FALSE, "Old site",
                "", <<>>, NoGit),
              F("index.md", <<"index">>, ".md", TRUE, "Old home", "", <<>>,
                NoGit) >>
      [] dir = <<"old", "blog">> ->
           << F("notes.txt", <<"notes">>, ".txt", FALSE, "", "", <<>>, NoGit) >>
      [] dir = <<"void">> ->
           << F("index.md", <<"index">>, ".md", FALSE, "", "", <<>>, NoGit) >>
      [] OTHER -> <<>>

\* os.ReadDir(inputDir): the entries of the directory, within the tree's depth
ReadDir(dir) ==
    SelectSeq(RawListing(dir), LAMBDA e : ~e.isDir \/ Len(dir) < MaxNest)

\* the directories of the source tree
RECURSIVE DirsBelow(_)
DirsBelow(dir) ==
    {dir} \cup UNION {DirsBelow(Append(dir, ReadDir(dir)[i].name)) :
                        i \in {j \in 1..Len(ReadDir(dir)) : ReadDir(dir)[j].isDir}}

Dirs == DirsBelow(<<>>)

\* the text of a file stem and of its form with spaces replaced by hyphens
Text(stem) ==
    CASE stem = <<"my", " ", "post">> -> "my post"
      [] stem = <<"my", "-", "post">> -> "my-post"
      [] OTHER -> stem[1]

\* strings.ReplaceAll(fileNameWithoutExt, " ", "-")
Hyphenate(stem) == [i \in 1..Len(stem) |-> IF stem[i] = " " THEN "-" ELSE stem[i]]

\* name + ".html" as one path segment
HtmlFile(name) ==
    CASE name = "about" -> "about.html"
      [] name = "index" -> "index.html"
      [] name = "doc" -> "doc.html"
      [] name = "my-post" -> "my-post.html"
      [] name = "my post" -> "my post.html"
      [] name = "deep" -> "deep.html"
      [] name = "intro" -> "intro.html"
      [] name = "p1" -> "p1.html"
      [] name = "p2" -> "p2.html"
      [] name = "d" -> "d.html"
      [] name = "e" -> "e.html"
      [] name = "home" -> "home.html"
      [] name = "n" -> "n.html"
      [] name = "old" -> "old.html"
      [] OTHER -> "notes.html"

\* fileNameWithoutExt + ".html", spaces replaced by hyphens
HtmlName(stem) == HtmlFile(Text(Hyphenate(stem)))

IsMarkdown(e) == ~e.isDir /\ e.ext \in {".md", ".markdown"}

IsIndexName(e) == e.name \in {"index.md", "index.markdown"}

\* time.Parse("2006-01-02", s): the day number of a date string that parses
DayNum(s) ==
    CASE s = "2022-12-31" -> 20221231
      [] s = "2023-07-01" -> 20230701
      [] s = "2024-01-05" -> 20240105
      [] s = "2024-03-09" -> 20240309
      [] OTHER -> 0

Parses(s) == s \in {"2022-12-31", "2023-07-01", "2024-01-05", "2024-03-09"}

\* the lexical order of the date strings (Go's > on strings), as ranks
StrRank(s) ==
    CASE s = "" -> 0
      [] s = "2022-12-31" -> 1
      [] s = "2023-07-01" -> 2
      [] s = "2024-01-05" -> 3
      [] s = "2024-03-09" -> 4
      [] OTHER -> 5

\* the configured asset paths (--css, --js) the builds are run with
AssetChoices ==
    { [css |-> <<"css", "style-blog.css">>, js |-> <<"js", "script.js">>],
      [css |-> <<"", "css", "style-blog.css">>, js |-> <<>>],
      [css |-> <<"https:", "", "cdn.example", "style.css">>,
       js  |-> <<"", "js", "script.js">>] }

\* the output directory that corresponds to the source root
OutBases == { <<"dist">>, <<"out", "site">> }

\* the working directory of the process: the repository root, the source
\* root, or the input directory itself
CwdChoices(entry) == { Front(SrcRoot), SrcRoot, SrcRoot \o entry }

(***************************************************************************)
(* State.                                                                  *)
(***************************************************************************)
VARIABLES
    pc,       \* position of ConvertDirectory: "start", "walk", "finish", "done",
              \* "failed" once it has returned an error
    cfg,      \* the Config and environment ConvertDirectory was called with
    stack,    \* the active processFiles calls, innermost last
    ret,      \* the value a processFiles call has just returned to its caller
    written,   \* the output files written so far, in order
    now,      \* the clock: the number of the build that is running
    earlier,  \* the output tree the build before this one left
    log       \* the warnings printed to stderr and the error returned

vars == <<pc, cfg, stack, ret, written, now, earlier, log>>

NoRet == [valid |-> FALSE, name |-> "", posts |-> <<>>]

\* what goes wrong during a build: nothing, a source file that cannot be
\* read, or an output path that cannot be written
NoFault == [kind |-> "none", path |-> <<>>]

\* os.ReadFile(filePath) returns an error
Unreadable(filePath) == cfg.fault.kind = "unreadable" /\ cfg.fault.path = filePath

\* os.Create(path), or the write that follows it, returns an error
Unwritable(path) == cfg.fault.kind = "unwritable" /\ cfg.fault.path = path

\* the artifacts of arts that are written, and a line of log for those that
\* are not: a warning on stderr, or the error that is returned
Kept(arts) == SelectSeq(arts, LAMBDA a : ~Unwritable(a.path))

Reported(level, arts) ==
    LET failed == SelectSeq(arts, LAMBDA a : Unwritable(a.path))
    IN  [i \in DOMAIN failed |->
           [level |-> level, what |-> failed[i].kind, path |-> failed[i].path]]

Warned(arts) == Reported("warning", arts)

Failed(arts) == Reported("error", arts)

\* an output file: what it is, the directory it was generated for, its path,
\* and the template data the properties are about
Art(kind, for, path, css, js, back, src, date, posts, pub) ==
    [kind |-> kind, for |-> for, path |-> path, css |-> css, js |-> js,
     back |-> back, src |-> src, date |-> date, posts |-> posts, pub |-> pub,
     dirs |-> <<>>, tags |-> <<>>, built |-> 0, self |-> <<>>]

\* the output tree: the file at a path is what was written there last
WrittenPaths == {written[i].path : i \in 1..Len(written)}

FileAt(path) ==
    written[CHOOSE i \in 1..Len(written) :
               /\ written[i].path = path
               /\ \A j \in 1..Len(written) : written[j].path = path => j <= i]

Files == {FileAt(p) : p \in WrittenPaths}

\* the output tree on disk: the files of this build and, where this build
\* has not written, the files the build before left
Tree == Files \cup {f \in earlier : f.path \notin WrittenPaths}

(***************************************************************************)
(* files.go: ConvertLandingPage and ConvertFile                            *)
(***************************************************************************)
\* ConvertLandingPage writes index.html of config.OutputDir
ConvertLandingPage(filePath, config) ==
    Art("landing", config.OutputDir, Append(config.OutputDir, "index.html"),
        config.CSSPath, config.JSPath, <<>>, filePath, "", <<>>, <<>>)

\* gitInfo.LastModified.Format("2006-01-02 15:04:05") as <<day, time of day>>;
\* <<>> when commit info is off or the file has no history
CommitDate(e, showCommitInfo) ==
    IF showCommitInfo /\ e.git.ok THEN <<e.git.day, e.git.sec>> ELSE <<>>

\* the Date shown on the page: the front-matter value, else commitDate[:10]
PageDate(e, showCommitInfo) ==
    IF e.date = "" /\ CommitDate(e, showCommitInfo) # <<>>
    THEN CommitDate(e, showCommitInfo)[1]
    ELSE e.date

\* variant of MetadataDate: the date resolved from the history is shown on the
\* page but not stored back into the map
MetadataDate_NotStoredBack(e, showCommitInfo) == e.date

\* metadata["Date"] of the map ConvertFile returns: the resolved date is
\* stored back into the map
MetadataDate(e, showCommitInfo) ==
    IF e.date = "" /\ CommitDate(e, showCommitInfo) # <<>>
    THEN CommitDate(e, showCommitInfo)[1]
    ELSE e.date

\* the page ConvertFile writes for the file e of the directory processed with config
ConvertFile(e, filePath, config) ==
    IF e.landing
    THEN ConvertLandingPage(filePath, config)
    ELSE Art("page", config.OutputDir,
             Append(config.OutputDir, HtmlName(e.stem)),
             config.CSSPath, config.JSPath, <<>>, filePath,
             PageDate(e, cfg.ShowCommitInfo), <<>>, <<>>)

(***************************************************************************)
(* files.go: processFiles, one directory entry at a time                   *)
(***************************************************************************)
\* the last index of a segment equal to "blog" (the loop that walks up from
\* config.OutputDir), 0 when there is none
BlogRootIndex(comps) ==
    IF \E i \in 1..Len(comps) : comps[i] = "blog"
    THEN CHOOSE i \in 1..Len(comps) :
            comps[i] = "blog" /\ \A j \in (i + 1)..Len(comps) : comps[j] # "blog"
    ELSE 0

\* FullURL of a post: "blog/" and the path below the blog root, else the output path
FullURL(outputDir, htmlName) ==
    IF BlogRootIndex(outputDir) > 0
    THEN <<"blog">> \o SubSeq(outputDir, BlogRootIndex(outputDir) + 1, Len(outputDir))
                    \o <<htmlName>>
    ELSE Append(outputDir, htmlName)

\* the BlogPost record appended for the file e
NewBlogPost(e, filePath, config) ==
    [Title    |-> IF e.title = "" THEN Text(e.stem) ELSE e.title,
     Link     |-> <<HtmlName(e.stem)>>,
     Date     |-> MetadataDate(e, cfg.ShowCommitInfo),
     FullURL  |-> FullURL(config.OutputDir, HtmlName(e.stem)),
     FilePath |-> filePath,
     CommitDate |-> CommitDate(e, cfg.ShowCommitInfo),
     Tags     |-> e.tags]

\* first pass of processFiles: the first index.md / index.markdown entry
\* metadata["Template"] == "landing" where the file is read for the test: a
\* file that cannot be read is taken for an ordinary one
LandingSeen(e, filePath) == e.landing /\ ~Unreadable(filePath)

IndexEntries(files) == {i \in 1..Len(files) : ~files[i].isDir /\ IsIndexName(files[i])}

FirstIndexEntry(files) == CHOOSE i \in IndexEntries(files) : \A j \in IndexEntries(files) : i <= j

\* the state of a processFiles call right after its first pass
NewFrame(dir, config, depth) ==
    LET files == ReadDir(dir)
    IN  [dir |-> dir, config |-> config, depth |-> depth, todo |-> files,
         blogPosts |-> <<>>,
         hasIndexMd |-> IndexEntries(files) # {},
         hasLandingPage |-> IndexEntries(files) # {}
                              /\ LandingSeen(files[FirstIndexEntry(files)],
                                     SrcRoot \o dir
                                     \o <<files[FirstIndexEntry(files)].name>>)]

\* variant of SubBlogDepth: the segments after "blog" counted without "blog"
SubBlogDepth_AfterBlogOnly(subOutComponents) ==
    Len(subOutComponents) - BlogIndex(subOutComponents)

\* blogDepth of a subdirectory inside the blog structure
SubBlogDepth(subOutComponents) == Len(subOutComponents) - BlogIndex(subOutComponents) + 1

\* the config processFiles gives a subdirectory
SubConfig(config, depth, subOutputDir) ==
    IF BlogIndex(subOutputDir) > 0
    THEN [config EXCEPT
            !.OutputDir = subOutputDir,
            !.CSSPath = prependPathPrefix(config.CSSPath, SubBlogDepth(subOutputDir)),
            !.JSPath  = prependPathPrefix(config.JSPath, SubBlogDepth(subOutputDir))]
    ELSE adjustPaths([config EXCEPT !.OutputDir = subOutputDir], depth + 1, subOutputDir)

(***************************************************************************)
(* sort.Slice on at most 12 elements is an insertion sort with the given   *)
(* less function.                                                          *)
(***************************************************************************)
\* the directory entry of the source file of a post
EntryOf(filePath) ==
    LET files == ReadDir(SubSeq(filePath, Len(SrcRoot) + 1, Len(filePath) - 1))
    IN  files[CHOOSE i \in 1..Len(files) : files[i].name = Last(filePath)]

\* a time as one number: the day, then the time of day
TimeOf(day, sec) == DayNum(day) * 100 + sec

\* variant of IndexTime: the front-matter date only
IndexTime_MetadataOnly(post) == TimeOf(post.Date, 0)

\* generateIndex: the Git modification time where the file has history, else
\* the parsed front-matter date (the zero time when it does not parse)
IndexTime(post) ==
    IF EntryOf(post.FilePath).git.ok
    THEN TimeOf(EntryOf(post.FilePath).git.day, EntryOf(post.FilePath).git.sec)
    ELSE TimeOf(post.Date, 0)

\* the less functions of generateIndex, generateRSSFeed and generateTagPage
Less(mode, a, b) ==
    CASE mode = "index" -> IndexTime(a) > IndexTime(b)
      [] mode = "feed"  -> Parses(a.Date) /\ Parses(b.Date)
                              /\ DayNum(a.Date) > DayNum(b.Date)
      [] OTHER          -> StrRank(a.Date) > StrRank(b.Date)

Swap(s, i, j) == [s EXCEPT ![i] = s[j], ![j] = s[i]]

RECURSIVE Sink(_, _, _)
Sink(mode, s, j) ==
    IF j > 1 /\ Less(mode, s[j], s[j - 1])
    THEN Sink(mode, Swap(s, j, j - 1), j - 1)
    ELSE s

RECURSIVE InsertionSort(_, _, _)
InsertionSort(mode, s, i) ==
    IF i > Len(s) THEN s ELSE InsertionSort(mode, Sink(mode, s, i), i + 1)

SortPosts(mode, posts) == InsertionSort(mode, posts, 2)

(***************************************************************************)
(* templates.go: generateIndex and generateSearchIndex                     *)
(***************************************************************************)
\* variant of generateIndex: the files are written whatever there is to list
generateIndex_Unguarded(outputDir, blogPosts, subdirectories, cssPath, jsPath, backURL) ==
    << [kind |-> "index", for |-> outputDir, path |-> Append(outputDir, "index.html"),
        css |-> cssPath, js |-> jsPath, back |-> backURL, src |-> <<>>, date |-> "",
        posts |-> blogPosts, pub |-> <<>>, dirs |-> subdirectories, tags |-> <<>>,
        built |-> 0, self |-> <<>>] >>

\* the files generateIndex writes: index.html and search-index.json, when
\* there are posts or subdirectories to display
generateIndex(outputDir, blogPosts, subdirectories, cssPath, jsPath, backURL) ==
    IF Len(blogPosts) > 0 \/ Len(subdirectories) > 0
    THEN << [Art("index", outputDir, Append(outputDir, "index.html"), cssPath,
                 jsPath, backURL, <<>>, "", SortPosts("index", blogPosts), <<>>)
               EXCEPT !.dirs = subdirectories],
            Art("search", outputDir, Append(outputDir, "search-index.json"),
                <<>>, <<>>, <<>>, <<>>, "", SortPosts("index", blogPosts), <<>>) >>
    ELSE <<>>

(***************************************************************************)
(* rss.go: generateRSSFeed                                                 *)
(***************************************************************************)
\* pubDate of a feed item: the post's date in RFC 1123 form, nothing for a
\* date that does not parse, the time of the build for a post without date
PubDate(date) ==
    IF date # ""
    THEN IF Parses(date) THEN [kind |-> "date", day |-> DayNum(date)]
         ELSE [kind |-> "empty", day |-> 0]
    ELSE [kind |-> "now", day |-> now]

\* the feed's own URL below the site URL (atom:link rel="self")
FeedURL(outputDir) ==
    IF BlogIndex(outputDir) > 0
    THEN <<"blog">> \o SubSeq(outputDir, BlogIndex(outputDir) + 1, Len(outputDir))
                    \o <<"feed.xml">>
    ELSE Append(outputDir, "feed.xml")

generateRSSFeed(blogPosts, generateRSS, outputDir) ==
    IF ~generateRSS \/ Len(blogPosts) = 0 THEN <<>>
    ELSE LET sortedPosts == SortPosts("feed", blogPosts)
         IN  << [Art("feed", outputDir, Append(outputDir, "feed.xml"), <<>>, <<>>,
                     <<>>, <<>>, "", sortedPosts,
                     [i \in 1..Len(sortedPosts) |-> PubDate(sortedPosts[i].Date)])
                   EXCEPT !.built = now, !.self = FeedURL(outputDir)] >>

(***************************************************************************)
(* tags.go: collectTags, generateTagPage, generateTagsIndex                *)
(***************************************************************************)
\* the keys of collectTags' map
TagNames(posts) == UNION {Range(posts[i].Tags) : i \in 1..Len(posts)}

\* tagMap[tag].Posts: the posts carrying the tag, in list order
TagPosts(posts, tag) == SelectSeq(posts, LAMBDA p : tag \in Range(p.Tags))

\* tagName + ".html"
TagFile(tag) ==
    CASE tag = "linux" -> "linux.html"
      [] tag = "go" -> "go.html"
      [] OTHER -> "index.html"

\* alphabetical rank of the tag names
TagRank(tag) ==
    CASE tag = "go" -> 1
      [] tag = "linux" -> 3
      [] OTHER -> 2

\* the orders in which a range over the tag map can visit its keys
TagOrders(posts) ==
    {o \in [1..Cardinality(TagNames(posts)) -> TagNames(posts)] :
        \A i, j \in DOMAIN o : i # j => o[i] # o[j]}

\* the page of one tag: its name, its count and its posts sorted by date
generateTagPage(tagName, posts, cssPath, jsPath, for, outputBaseDir) ==
    [Art("tag", for, outputBaseDir \o <<"blog", "tags", TagFile(tagName)>>,
         prependPathPrefix(cssPath, 2), prependPathPrefix(jsPath, 2),
         <<"index.html">>, <<>>, "", SortPosts("tag", TagPosts(posts, tagName)), <<>>)
       EXCEPT !.tags = << [Name |-> tagName,
                           Count |-> Len(TagPosts(posts, tagName))] >>]

\* the tag overview: the tags sorted by name, each with its count
generateTagsIndex(posts, cssPath, jsPath, for, outputBaseDir) ==
    LET names == TagNames(posts)
        byName == CHOOSE o \in TagOrders(posts) :
                     \A i, j \in DOMAIN o : i < j => TagRank(o[i]) < TagRank(o[j])
    IN  [Art("tagsindex", for, outputBaseDir \o <<"blog", "tags", "index.html">>,
             prependPathPrefix(cssPath, 2), prependPathPrefix(jsPath, 2),
             <<"..", "index.html">>, <<>>, "", <<>>, <<>>)
           EXCEPT !.tags = [i \in DOMAIN byName |->
                              [Name |-> byName[i],
                               Count |-> Len(TagPosts(posts, byName[i]))]]]

\* variant of TagArtifacts: the overview lists the tags in the order the map
\* is visited
TagArtifacts_OverviewUnsorted(posts, cssPath, jsPath, for, outputBaseDir, order) ==
    [i \in DOMAIN order |->
        generateTagPage(order[i], posts, cssPath, jsPath, for, outputBaseDir)]
    \o << [generateTagsIndex(posts, cssPath, jsPath, for, outputBaseDir)
             EXCEPT !.tags = [i \in DOMAIN order |->
                                [Name |-> order[i],
                                 Count |-> Len(TagPosts(posts, order[i]))]]] >>

\* the tag pages in the order the map is visited, then the tag overview
TagArtifacts(posts, cssPath, jsPath, for, outputBaseDir, order) ==
    [i \in DOMAIN order |->
        generateTagPage(order[i], posts, cssPath, jsPath, for, outputBaseDir)]
    \o << generateTagsIndex(posts, cssPath, jsPath, for, outputBaseDir) >>

(***************************************************************************)
(* files.go: ConvertDirectory                                              *)
(***************************************************************************)
\* absolute path of the input directory
InputDir == SrcRoot \o cfg.entry

\* inputRoot: the working directory in recursive mode, else the input directory
InputRoot == IF cfg.Recursive THEN cfg.cwd ELSE InputDir

\* the landing page ConvertDirectory renders itself: index.md of the input
\* directory when it carries Template: landing, with the configured asset paths
EntryLanding ==
    LET files == ReadDir(cfg.entry)
        at == {i \in 1..Len(files) : ~files[i].isDir /\ files[i].name = "index.md"}
    IN  IF at # {} /\ LandingSeen(files[CHOOSE i \in at : TRUE],
                                   Append(InputDir, "index.md"))
        THEN << ConvertLandingPage(Append(InputDir, "index.md"),
                   [OutputDir |-> cfg.OutputDir, CSSPath |-> cfg.CSSPath,
                    JSPath |-> cfg.JSPath, Recursive |-> cfg.Recursive]) >>
        ELSE <<>>

\* nestingDepth of ConvertDirectory's branch for blog/X/Y/...
EntryNestingDepth(blogComponents) == Len(blogComponents) - 1

\* the depth ConvertDirectory passes to processFiles
EntryDepth ==
    LET blogComponents == BlogComponents(cfg.OutputDir)
    IN  IF BlogIndex(cfg.OutputDir) > 0
        THEN IF Len(blogComponents) = 2 THEN 1
             ELSE IF Len(blogComponents) = 1 THEN 0
             ELSE EntryNestingDepth(blogComponents)
        ELSE calculatePathDepth(InputDir, InputRoot)

\* the config ConvertDirectory passes to processFiles
EntryConfig ==
    LET blogComponents == BlogComponents(cfg.OutputDir)
        config == [OutputDir |-> cfg.OutputDir, CSSPath |-> cfg.CSSPath,
                   JSPath |-> cfg.JSPath, Recursive |-> cfg.Recursive]
        blog(n, recursive) ==
            [config EXCEPT !.CSSPath = prependPathPrefix(cfg.CSSPath, n),
                           !.JSPath  = prependPathPrefix(cfg.JSPath, n),
                           !.Recursive = recursive]
    IN  IF BlogIndex(cfg.OutputDir) > 0
        THEN IF Len(blogComponents) = 2
             THEN blog(2, cfg.Recursive \/ cfg.GenerateRSS)
             ELSE IF Len(blogComponents) = 1
             THEN blog(1, TRUE)
             ELSE blog(EntryNestingDepth(blogComponents),
                       cfg.Recursive \/ cfg.GenerateRSS)
        ELSE adjustPaths(config, calculatePathDepth(InputDir, InputRoot),
                         cfg.OutputDir)

\* ConvertDirectory up to its call of processFiles
ConvertDirectoryBegin ==
    /\ pc = "start"
    /\ written' = written \o Kept(EntryLanding)
    /\ log' = log \o Failed(EntryLanding)
    /\ IF Failed(EntryLanding) # <<>>
       THEN pc' = "failed" /\ stack' = <<>>
       ELSE /\ stack' = << NewFrame(cfg.entry, EntryConfig, EntryDepth) >>
            /\ pc' = "walk"
    /\ UNCHANGED <<cfg, ret, now, earlier>>

(***************************************************************************)
(* files.go: processFiles                                                  *)
(***************************************************************************)
Top == stack[Len(stack)]

Walking == pc = "walk" /\ ~ret.valid /\ stack # <<>>

\* second pass, a subdirectory in recursive mode: processFiles is called on it
VisitSubdirectory ==
    /\ Walking
    /\ Top.todo # <<>>
    /\ Head(Top.todo).isDir
    /\ Top.config.Recursive
    /\ stack' = Append(stack,
                  NewFrame(Append(Top.dir, Head(Top.todo).name),
                           SubConfig(Top.config, Top.depth,
                                     Append(Top.config.OutputDir, Head(Top.todo).name)),
                           Top.depth + 1))
    /\ UNCHANGED <<pc, cfg, ret, written, now, earlier, log>>

\* variant of SubdirectoryFeed: a feed for the blog root only
SubdirectoryFeed_RootOnly(subPosts, subOutputDir) ==
    IF cfg.GenerateRSS /\ Len(subPosts) > 0
       /\ BlogIndex(subOutputDir) > 0
       /\ Len(BlogComponents(subOutputDir)) = 1
    THEN generateRSSFeed(subPosts, cfg.GenerateRSS, subOutputDir)
    ELSE <<>>

\* the feed processFiles writes for a subdirectory that is the blog root or
\* a first-level category
SubdirectoryFeed(subPosts, subOutputDir) ==
    IF cfg.GenerateRSS /\ Len(subPosts) > 0
       /\ BlogIndex(subOutputDir) > 0
       /\ Len(BlogComponents(subOutputDir)) \in {1, 2}
    THEN generateRSSFeed(subPosts, cfg.GenerateRSS, subOutputDir)
    ELSE <<>>

\* variant of PrefixLink: the absolute URL is prefixed like the link
PrefixLink_AlsoFullURL(name, post) ==
    [post EXCEPT !.Link = <<name>> \o post.Link, !.FullURL = <<name>> \o post.FullURL]

\* subPosts[i].Link = file.Name() + "/" + subPosts[i].Link
PrefixLink(name, post) == [post EXCEPT !.Link = <<name>> \o post.Link]

\* variant of MergeSubdirectory: the returned posts are not appended to this
\* directory's list
MergeSubdirectory_KeepsOwnPosts ==
    /\ pc = "walk"
    /\ ret.valid
    /\ stack # <<>>
    /\ LET subPosts == [i \in DOMAIN ret.posts |-> PrefixLink(ret.name, ret.posts[i])]
           subOutputDir == Append(Top.config.OutputDir, ret.name)
       IN  /\ written' = written \o Kept(SubdirectoryFeed(subPosts, subOutputDir))
           /\ log' = log \o Warned(SubdirectoryFeed(subPosts, subOutputDir))
           /\ stack' = [stack EXCEPT ![Len(stack)] = [@ EXCEPT !.todo = Tail(@)]]
    /\ ret' = NoRet
    /\ UNCHANGED <<pc, cfg, now, earlier>>

\* second pass, after the recursive call returned: the links of the returned
\* posts get the subdirectory's name, the feed is written, the posts are
\* appended to this directory's list
MergeSubdirectory ==
    /\ pc = "walk"
    /\ ret.valid
    /\ stack # <<>>
    /\ LET subPosts == [i \in DOMAIN ret.posts |-> PrefixLink(ret.name, ret.posts[i])]
           subOutputDir == Append(Top.config.OutputDir, ret.name)
       IN  /\ written' = written \o Kept(SubdirectoryFeed(subPosts, subOutputDir))
           /\ log' = log \o Warned(SubdirectoryFeed(subPosts, subOutputDir))
           /\ stack' = [stack EXCEPT ![Len(stack)] =
                          [@ EXCEPT !.blogPosts = @ \o subPosts,
                                    !.todo = Tail(@)]]
    /\ ret' = NoRet
    /\ UNCHANGED <<pc, cfg, now, earlier>>

\* entries the second pass passes over: a subdirectory when not recursive, a
\* file that is not Markdown, an index file that is a landing page
Skipped(e, filePath, config) ==
    \/ e.isDir /\ ~config.Recursive
    \/ ~e.isDir /\ ~IsMarkdown(e)
    \/ IsMarkdown(e) /\ IsIndexName(e) /\ LandingSeen(e, filePath)

\* filepath.Join(inputDir, file.Name()) for the entry the second pass is at
FilePath == SrcRoot \o Top.dir \o <<Head(Top.todo).name>>

SkipEntry ==
    /\ Walking
    /\ Top.todo # <<>>
    /\ Skipped(Head(Top.todo), FilePath, Top.config)
    /\ stack' = [stack EXCEPT ![Len(stack)] = [@ EXCEPT !.todo = Tail(@)]]
    /\ UNCHANGED <<pc, cfg, ret, written, now, earlier, log>>

\* variant of ConvertDocument: a document that cannot be rendered is passed
\* over and the build goes on
ConvertDocument_PassesOverFailure ==
    /\ Walking
    /\ Top.todo # <<>>
    /\ IsMarkdown(Head(Top.todo))
    /\ ~Skipped(Head(Top.todo), FilePath, Top.config)
    /\ LET e == Head(Top.todo)
           filePath == FilePath
           page == ConvertFile(e, filePath, Top.config)
           failed == Unreadable(filePath) \/ Unwritable(page.path)
       IN  /\ log' = IF failed
                     THEN Append(log, [level |-> "warning", what |-> "page",
                                       path |-> page.path])
                     ELSE log
           /\ written' = IF failed THEN written ELSE Append(written, page)
           /\ stack' = [stack EXCEPT ![Len(stack)] =
                          [@ EXCEPT !.todo = Tail(@),
                                    !.blogPosts =
                                       IF IsIndexName(e) \/ failed THEN @
                                       ELSE Append(@, NewBlogPost(e, filePath, Top.config))]]
    /\ UNCHANGED <<pc, cfg, ret, now, earlier>>

\* variant of ConvertDocument: the directory's index file is appended to the
\* post list like any other document
ConvertDocument_ListsIndexFile ==
    /\ Walking
    /\ Top.todo # <<>>
    /\ IsMarkdown(Head(Top.todo))
    /\ ~Skipped(Head(Top.todo), FilePath, Top.config)
    /\ LET e == Head(Top.todo)
           filePath == FilePath
           page == ConvertFile(e, filePath, Top.config)
       IN  IF Unreadable(filePath) \/ Unwritable(page.path)
           THEN /\ log' = Append(log, [level |-> "error", what |-> "page",
                                       path |-> page.path])
                /\ pc' = "failed"
                /\ stack' = <<>>
                /\ UNCHANGED written
           ELSE /\ written' = Append(written, page)
                /\ stack' = [stack EXCEPT ![Len(stack)] =
                               [@ EXCEPT !.todo = Tail(@),
                                         !.blogPosts =
                                            Append(@, NewBlogPost(e, filePath, Top.config))]]
                /\ UNCHANGED <<pc, log>>
    /\ UNCHANGED <<cfg, ret, now, earlier>>

\* second pass, a Markdown file: ConvertFile renders it, and unless it is the
\* directory's index file a BlogPost is appended
ConvertDocument ==
    /\ Walking
    /\ Top.todo # <<>>
    /\ IsMarkdown(Head(Top.todo))
    /\ ~Skipped(Head(Top.todo), FilePath, Top.config)
    /\ LET e == Head(Top.todo)
           filePath == FilePath
           page == ConvertFile(e, filePath, Top.config)
       IN  IF Unreadable(filePath) \/ Unwritable(page.path)
           THEN \* ConvertFile returns an error, and so does every caller
                /\ log' = Append(log, [level |-> "error", what |-> "page",
                                       path |-> page.path])
                /\ pc' = "failed"
                /\ stack' = <<>>
                /\ UNCHANGED written
           ELSE /\ written' = Append(written, page)
                /\ stack' = [stack EXCEPT ![Len(stack)] =
                               [@ EXCEPT !.todo = Tail(@),
                                         !.blogPosts =
                                            IF IsIndexName(e) THEN @
                                            ELSE Append(@, NewBlogPost(e, filePath, Top.config))]]
                /\ UNCHANGED <<pc, log>>
    /\ UNCHANGED <<cfg, ret, now, earlier>>

\* directory names generateIndex does not list
Hidden == {".git"}

\* the subdirectories listed in the index, sorted by name
Subdirectories(files) ==
    LET dirs == SelectSeq(files, LAMBDA e : e.isDir /\ e.name \notin Hidden)
    IN  [i \in DOMAIN dirs |-> dirs[i].name]

\* variant of IndexBackURL: derived from the depth everywhere
IndexBackURL_ByDepth(outputDir, depth) == calculateBackURL(depth)

\* the back URL of the directory's index
IndexBackURL(outputDir, depth) ==
    IF BlogIndex(outputDir) > 0 THEN <<"..", "index.html">>
    ELSE calculateBackURL(depth)

\* whether processFiles generates the directory's index
WantsIndex(f) == ~f.hasLandingPage /\ (cfg.GenerateList \/ ~f.hasIndexMd)

\* the index and search index of the directory of frame f
DirectoryIndex(f) ==
    IF WantsIndex(f)
    THEN generateIndex(f.config.OutputDir, f.blogPosts,
                       Subdirectories(ReadDir(f.dir)), f.config.CSSPath,
                       f.config.JSPath, IndexBackURL(f.config.OutputDir, f.depth))
    ELSE <<>>

\* generateIndex sorts the slice it is given, which is the caller's blogPosts
PostsAfterIndex(f) ==
    IF WantsIndex(f) THEN SortPosts("index", f.blogPosts) ELSE f.blogPosts

\* whether processFiles generates the tag pages for the directory of frame f
TagsHere(f) ==
    /\ BlogIndex(f.config.OutputDir) > 0
    /\ Len(BlogComponents(f.config.OutputDir)) = 1
    /\ Len(f.blogPosts) > 0

\* rootOutputDir: the output path above the "blog" segment
RootOutputDir(outputDir) == SubSeq(outputDir, 1, BlogIndex(outputDir) - 1)

\* the end of processFiles: the index, at the blog root the tag pages, and
\* the return of the post list
FinishDirectory ==
    /\ Walking
    /\ Top.todo = <<>>
    /\ IF Failed(DirectoryIndex(Top)) # <<>>
       THEN \* generateIndex returns an error, and so does every caller
            /\ log' = log \o SubSeq(Failed(DirectoryIndex(Top)), 1, 1)
            /\ pc' = "failed"
            /\ stack' = <<>>
            /\ UNCHANGED <<written, ret>>
       ELSE /\ \E order \in (IF TagsHere(Top) THEN TagOrders(Top.blogPosts)
                              ELSE {<<>>}) :
                 LET tags == IF TagsHere(Top)
                             THEN TagArtifacts(PostsAfterIndex(Top),
                                     Top.config.CSSPath, Top.config.JSPath,
                                     Top.config.OutputDir,
                                     RootOutputDir(Top.config.OutputDir), order)
                             ELSE <<>>
                 IN  /\ written' = written \o DirectoryIndex(Top) \o Kept(tags)
                     /\ log' = log \o Warned(tags)
            /\ ret' = [valid |-> TRUE,
                       name |-> IF Len(stack) > 1 THEN Last(Top.dir) ELSE "",
                       posts |-> PostsAfterIndex(Top)]
            /\ stack' = Front(stack)
            /\ pc' = IF Len(stack) > 1 THEN "walk" ELSE "finish"
    /\ UNCHANGED <<cfg, now, earlier>>

(***************************************************************************)
(* files.go: ConvertDirectory after processFiles returned                  *)
(***************************************************************************)
\* the tag pages ConvertDirectory generates when the input is the blog root
EntryTags(blogPosts, order) ==
    IF BlogIndex(cfg.OutputDir) > 0 /\ Len(BlogComponents(cfg.OutputDir)) = 1
       /\ Len(blogPosts) > 0
    THEN TagArtifacts(blogPosts, cfg.CSSPath, cfg.JSPath, cfg.OutputDir,
                      cfg.OutputDir, order)
    ELSE <<>>

\* the feed ConvertDirectory generates when the input is inside the blog
EntryFeed(blogPosts) ==
    IF BlogIndex(cfg.OutputDir) > 0
    THEN generateRSSFeed(blogPosts, cfg.GenerateRSS, cfg.OutputDir)
    ELSE <<>>

ConvertDirectoryEnd ==
    /\ pc = "finish"
    /\ \E order \in (IF EntryTags(ret.posts, <<>>) # <<>>
                     THEN TagOrders(ret.posts) ELSE {<<>>}) :
          /\ written' = written \o Kept(EntryTags(ret.posts, order))
                                 \o Kept(EntryFeed(ret.posts))
          /\ log' = log \o Warned(EntryTags(ret.posts, order))
                        \o Failed(EntryFeed(ret.posts))
    /\ ret' = NoRet
    /\ pc' = IF Failed(EntryFeed(ret.posts)) # <<>> THEN "failed" ELSE "done"
    /\ UNCHANGED <<cfg, stack, now, earlier>>

(***************************************************************************)
(* The builds: every directory of the tree as input, with the output       *)
(* directory that mirrors it.                                              *)
(***************************************************************************)
Init ==
    /\ pc = "start"
    /\ stack = <<>>
    /\ ret = NoRet
    /\ written = <<>>
    /\ now = 1
    /\ earlier = {}
    /\ log = <<>>
    /\ \E entry \in Dirs, outBase \in OutBases, assets \in AssetChoices,
          recursive, rss, list, commits \in BOOLEAN :
         \E cwd \in CwdChoices(entry) :
            cfg = [entry |-> entry, OutputDir |-> outBase \o entry, cwd |-> cwd,
                   CSSPath |-> assets.css, JSPath |-> assets.js,
                   Recursive |-> recursive, GenerateRSS |-> rss,
                   GenerateList |-> list, ShowCommitInfo |-> commits,
                   fault |-> NoFault]

Next ==
    \/ ConvertDirectoryBegin
    \/ VisitSubdirectory
    \/ MergeSubdirectory
    \/ SkipEntry
    \/ ConvertDocument
    \/ FinishDirectory
    \/ ConvertDirectoryEnd

Spec == Init /\ [][Next]_vars

(***************************************************************************)
(* The build run a second time on the same tree with the same arguments.   *)
(***************************************************************************)
NumBuilds == 2

\* md2html convert is started again; the files of the first run are on disk
Rebuild ==
    /\ pc = "done"
    /\ now < NumBuilds
    /\ now' = now + 1
    /\ earlier' = Tree
    /\ written' = <<>>
    /\ pc' = "start"
    /\ UNCHANGED <<cfg, stack, ret, log>>

TwiceInit ==
    /\ Init
    /\ cfg.CSSPath = <<"css", "style-blog.css">>
    /\ cfg.cwd = SrcRoot

TwiceNext ==
    \/ ConvertDirectoryBegin
    \/ VisitSubdirectory
    \/ MergeSubdirectory
    \/ SkipEntry
    \/ ConvertDocument
    \/ FinishDirectory
    \/ ConvertDirectoryEnd
    \/ Rebuild

TwiceSpec == TwiceInit /\ [][TwiceNext]_vars

(***************************************************************************)
(* The build with one thing going wrong: a source file that cannot be read *)
(* or an output file that cannot be written.                               *)
(***************************************************************************)
\* the Markdown files of a directory, as absolute paths
SourcesIn(dir) ==
    {SrcRoot \o dir \o <<ReadDir(dir)[i].name>> :
        i \in {j \in 1..Len(ReadDir(dir)) : IsMarkdown(ReadDir(dir)[j])}}

\* the output files a build can write for a directory: its pages, its index,
\* its feed, and the tag pages below it
OutputsIn(outBase, dir) ==
    {outBase \o dir \o <<HtmlName(ReadDir(dir)[i].stem)>> :
        i \in {j \in 1..Len(ReadDir(dir)) : IsMarkdown(ReadDir(dir)[j])}}
    \cup {outBase \o dir \o <<"index.html">>, outBase \o dir \o <<"feed.xml">>}
    \cup {outBase \o dir \o <<"blog", "tags", TagFile(t)>> : t \in {"go", "index"}}

FaultChoices(entry, outBase) ==
    {NoFault}
    \cup {[kind |-> "unreadable", path |-> f] :
            f \in UNION {SourcesIn(d) : d \in DirsBelow(entry)}}
    \cup {[kind |-> "unwritable", path |-> f] :
            f \in UNION {OutputsIn(outBase, d) : d \in DirsBelow(entry)}
                  \cup OutputsIn(outBase, <<>>)}

FaultInit ==
    /\ pc = "start"
    /\ stack = <<>>
    /\ ret = NoRet
    /\ written = <<>>
    /\ now = 1
    /\ earlier = {}
    /\ log = <<>>
    /\ \E entry \in Dirs, recursive, rss, list \in BOOLEAN :
         \E fault \in FaultChoices(entry, <<"dist">>) :
            cfg = [entry |-> entry, OutputDir |-> <<"dist">> \o entry,
                   cwd |-> SrcRoot,
                   CSSPath |-> <<"css", "style-blog.css">>,
                   JSPath |-> <<"js", "script.js">>,
                   Recursive |-> recursive, GenerateRSS |-> rss,
                   GenerateList |-> list, ShowCommitInfo |-> FALSE,
                   fault |-> fault]

FaultSpec == FaultInit /\ [][Next]_vars

(***************************************************************************)
(* paths.go: processWikiLinks, for a reference [[path/to/page]]            *)
(***************************************************************************)
\* filepath.Rel(base, target) for two clean relative paths: an error when
\* base leaves the common part through ".."
RelFails(base, target) ==
    ".." \in Range(SubSeq(base, CommonLen(base, target) + 1, Len(base)))

\* relPath with its trailing "/": "./" for the same directory
Slashed(relPath) == IF relPath = <<>> THEN <<".">> ELSE relPath

\* the href of a page reference: link.abs says whether the text starts with
\* "/", link.path holds its segments, the last one the page's name
processWikiLinks(link, basePath, inputRoot, outputRoot) ==
    LET targetPath ==
            IF link.abs THEN link.path
            ELSE Rel(inputRoot, CleanFrom(<<>>, Front(basePath) \o link.path))
        sourceDir == Front(basePath)
        sourceRelToRoot == Rel(inputRoot, sourceDir)
        sourceOutputDir == CleanFrom(<<>>, outputRoot \o sourceRelToRoot)
        targetOutputDir == CleanFrom(<<>>, outputRoot \o Front(targetPath))
        relPath == IF RelFails(sourceOutputDir, targetOutputDir)
                   THEN targetPath
                   ELSE Rel(sourceOutputDir, targetOutputDir)
        fileName == Last(targetPath)
    IN  Slashed(relPath) \o <<HtmlFile(fileName)>>

\* ConvertFile: fileDir = filepath.Dir(mdFile) is handed over as basePath,
\* config.OutputDir as outputRoot
LinksOfFile(link, filePath, config) ==
    processWikiLinks(link, Front(filePath), InputRoot, config.OutputDir)

\* the output directory processFiles derives for a directory of the build
OutputDirOf(dir) == cfg.OutputDir \o SubSeq(dir, Len(cfg.entry) + 1, Len(dir))

\* the directories a build goes through
BuildDirs ==
    {d \in Dirs : IsPrefix(cfg.entry, d) /\ (EntryConfig.Recursive \/ d = cfg.entry)}

\* the documents of a directory rendered with the page template
PagesIn(dir) ==
    {e \in Range(ReadDir(dir)) : IsMarkdown(e) /\ ~e.landing}

\* the two ways document a can name document b: by a path from its own
\* directory, and by a path from the input directory with a leading "/"
ReferenceTo(form, aDir, bDir, b) ==
    IF form = "root"
    THEN [abs |-> TRUE,
          path |-> Append(SubSeq(bDir, Len(cfg.entry) + 1, Len(bDir)), Text(b.stem))]
    ELSE [abs |-> FALSE, path |-> Append(Rel(aDir, bDir), Text(b.stem))]

LinkForms == {"relative", "root"}

\* the builds whose links are looked at
LinkInit ==
    /\ pc = "link"
    /\ stack = <<>>
    /\ ret = NoRet
    /\ written = <<>>
    /\ now = 1
    /\ earlier = {}
    /\ log = <<>>
    /\ \E entry \in Dirs, outBase \in OutBases, recursive \in BOOLEAN :
         \E cwd \in CwdChoices(entry) :
            cfg = [entry |-> entry, OutputDir |-> outBase \o entry, cwd |-> cwd,
                   CSSPath |-> <<"css", "style-blog.css">>,
                   JSPath |-> <<"js", "script.js">>,
                   Recursive |-> recursive, GenerateRSS |-> FALSE,
                   GenerateList |-> FALSE, ShowCommitInfo |-> FALSE,
                   fault |-> NoFault]

\* ConvertFile rewrites, in document a, a reference to document b, and in
\* document b the reference back to a
RewriteLinks ==
    /\ pc = "link"
    /\ \E aDir \in BuildDirs, bDir \in BuildDirs, form \in LinkForms :
         \E a \in PagesIn(aDir), b \in PagesIn(bDir) :
            LET config(dir) == [OutputDir |-> OutputDirOf(dir)]
                href(xDir, x, yDir, y) ==
                    LinksOfFile(ReferenceTo(form, xDir, yDir, y),
                                SrcRoot \o xDir \o <<x.name>>, config(xDir))
            IN  written' =
                  << [kind |-> "links", form |-> form,
                      aDir |-> aDir, a |-> a, bDir |-> bDir, b |-> b,
                      refAB |-> ReferenceTo(form, aDir, bDir, b),
                      hrefAB |-> href(aDir, a, bDir, b),
                      hrefBA |-> href(bDir, b, aDir, a)] >>
    /\ pc' = "linked"
    /\ UNCHANGED <<cfg, stack, ret, now, earlier, log>>

LinkNext == RewriteLinks

LinkSpec == LinkInit /\ [][LinkNext]_vars

(***************************************************************************)
(* metadata.go: extractMetadata. A file's content is the sequence of its   *)
(* characters.                                                             *)
(***************************************************************************)
MaxLines == 2

Open == <<"<", "!", "-", "-">>

Close == <<"-", "-", ">">>

\* strings.HasPrefix(s, prefix)
HasPrefix(s, prefix) == Len(prefix) <= Len(s) /\ SubSeq(s, 1, Len(prefix)) = prefix

\* the 0-based positions at which substr occurs in s
Occurrences(s, substr) ==
    {i \in 0..(Len(s) - Len(substr)) : SubSeq(s, i + 1, i + Len(substr)) = substr}

\* strings.Index(s, substr): the first position, -1 when there is none
Index(s, substr) ==
    IF Occurrences(s, substr) = {} THEN -1
    ELSE CHOOSE i \in Occurrences(s, substr) :
            \A j \in Occurrences(s, substr) : i <= j

\* strings.TrimSpace(s)
TrimSpace(s) ==
    LET ink == {i \in 1..Len(s) : s[i] \notin {" ", "\n"}}
    IN  IF ink = {} THEN <<>>
        ELSE SubSeq(s, CHOOSE i \in ink : \A j \in ink : i <= j,
                       CHOOSE i \in ink : \A j \in ink : j <= i)

\* strings.Split(s, sep) for a separator of one character
RECURSIVE Split(_, _)
Split(s, sep) ==
    IF Index(s, <<sep>>) = -1 THEN <<s>>
    ELSE <<SubSeq(s, 1, Index(s, <<sep>>))>>
         \o Split(SubSeq(s, Index(s, <<sep>>) + 2, Len(s)), sep)

\* metadata[key] = value
Put(metadata, key, value) ==
    [k \in DOMAIN metadata \cup {key} |-> IF k = key THEN value ELSE metadata[k]]

\* the loop over the lines of the comment
RECURSIVE ReadLines(_, _)
ReadLines(lines, metadata) ==
    IF lines = <<>> THEN metadata
    ELSE LET line == TrimSpace(Head(lines))
             at == Index(line, <<":">>)
         IN  IF line = <<>> \/ at = -1
             THEN ReadLines(Tail(lines), metadata)
             ELSE ReadLines(Tail(lines),
                            Put(metadata, TrimSpace(SubSeq(line, 1, at)),
                                TrimSpace(SubSeq(line, at + 2, Len(line)))))

NoMetadata == [k \in {} |-> <<>>]

\* extractMetadata(mdContent): the map and the content without the comment;
\* the slice content[4:endIndex] panics when endIndex is less than 4
extractMetadata(mdContent) ==
    LET endIndex == Index(mdContent, Close)
    IN  IF HasPrefix(mdContent, Open) /\ endIndex # -1
        THEN IF endIndex < 4
             THEN [panic |-> TRUE, metadata |-> NoMetadata, body |-> <<>>]
             ELSE [panic |-> FALSE,
                   metadata |-> ReadLines(Split(SubSeq(mdContent, 5, endIndex), "\n"),
                                          NoMetadata),
                   body |-> SubSeq(mdContent, endIndex + 4, Len(mdContent))]
        ELSE [panic |-> FALSE, metadata |-> NoMetadata, body |-> mdContent]

\* the lines a front-matter comment is made of
LineChoices ==
    { <<>>, <<" ">>, <<"k">>, <<"k", ":", "v">>, <<" ", "k", " ", ":", " ", "v", " ">>,
      <<"K", ":", "w">>, <<"k", ":", "w", ":", "v">>, <<"k", ":">>, <<":", "v">>,
      <<"k", ":", "v", " ", "w">> }

RECURSIVE Join(_)
Join(lines) ==
    IF lines = <<>> THEN <<>>
    ELSE IF Len(lines) = 1 THEN lines[1]
    ELSE lines[1] \o <<"\n">> \o Join(Tail(lines))

\* the contents extractMetadata is applied to: a beginning, some lines, an
\* end of the comment or none, and the text after it
Contents ==
    {head \o Join(lines) \o tail \o body :
        head \in {<<>>, Open, <<"<", "!", "-">>, <<" ">> \o Open},
        lines \in UNION {[1..n -> LineChoices] : n \in 0..MaxLines},
        tail \in {<<>>, Close, <<">">>, <<"\n">> \o Close},
        body \in {<<>>, <<"#">>, <<"\n", "#", " ">> \o Close}}

MetaInit ==
    /\ pc = "read"
    /\ stack = <<>>
    /\ ret = NoRet
    /\ written = <<>>
    /\ now = 1
    /\ earlier = {}
    /\ log = <<>>
    /\ cfg = [entry |-> <<>>, OutputDir |-> <<"dist">>, cwd |-> SrcRoot,
              CSSPath |-> <<"css", "style-blog.css">>,
              JSPath |-> <<"js", "script.js">>,
              Recursive |-> FALSE, GenerateRSS |-> FALSE,
              GenerateList |-> FALSE, ShowCommitInfo |-> FALSE,
              fault |-> NoFault]

\* ConvertFile reads a file and extracts its metadata
ReadMetadata ==
    /\ pc = "read"
    /\ \E mdContent \in Contents :
          written' = << [kind |-> "metadata", content |-> mdContent,
                         out |-> extractMetadata(mdContent)] >>
    /\ pc' = "parsed"
    /\ UNCHANGED <<cfg, stack, ret, now, earlier, log>>

MetaNext == ReadMetadata

MetaSpec == MetaInit /\ [][MetaNext]_vars

(***************************************************************************)
(* rss.go: generateRSSFeed as a function of the list of posts it is given. *)
(***************************************************************************)
MaxPosts == 3

\* the posts of the documents of the blog
BlogPosts ==
    UNION { {NewBlogPost(e, SrcRoot \o d \o <<e.name>>,
                         [OutputDir |-> <<"dist">> \o d]) :
                e \in {x \in Range(ReadDir(d)) : IsMarkdown(x) /\ ~IsIndexName(x)}} :
            d \in DirsBelow(<<"blog">>) }

\* the lists of at most MaxPosts different posts, in every order
PostListChoices ==
    UNION { {l \in [1..n -> BlogPosts] :
                \A i, j \in 1..n : i # j => l[i] # l[j]} : n \in 0..MaxPosts }

FeedInit ==
    /\ pc = "collected"
    /\ stack = <<>>
    /\ ret = NoRet
    /\ written = <<>>
    /\ now = 1
    /\ earlier = {}
    /\ log = <<>>
    /\ cfg = [entry |-> <<"blog">>, OutputDir |-> <<"dist", "blog">>,
              cwd |-> SrcRoot,
              CSSPath |-> <<"css", "style-blog.css">>,
              JSPath |-> <<"js", "script.js">>,
              Recursive |-> TRUE, GenerateRSS |-> TRUE,
              GenerateList |-> FALSE, ShowCommitInfo |-> FALSE,
              fault |-> NoFault]

\* generateRSSFeed is called with a list of posts
WriteFeed ==
    /\ pc = "collected"
    /\ \E blogPosts \in PostListChoices :
          written' = generateRSSFeed(blogPosts, cfg.GenerateRSS, cfg.OutputDir)
    /\ pc' = "fed"
    /\ UNCHANGED <<cfg, stack, ret, now, earlier, log>>

FeedNext == WriteFeed

FeedSpec == FeedInit /\ [][FeedNext]_vars

(***************************************************************************)
(* The builds into an output directory whose own path has a segment named  *)
(* "blog": md2html convert --output blog/public.                           *)
(***************************************************************************)
BlogOutBase == <<"blog", "public">>

InnerInit ==
    /\ pc = "start"
    /\ stack = <<>>
    /\ ret = NoRet
    /\ written = <<>>
    /\ now = 1
    /\ earlier = {}
    /\ log = <<>>
    /\ \E entry \in Dirs, outBase \in {BlogOutBase, <<"dist">>},
          recursive, rss, list \in BOOLEAN :
            cfg = [entry |-> entry, OutputDir |-> outBase \o entry,
                   cwd |-> SrcRoot,
                   CSSPath |-> <<"css", "style-blog.css">>,
                   JSPath |-> <<"js", "script.js">>,
                   Recursive |-> recursive, GenerateRSS |-> rss,
                   GenerateList |-> list, ShowCommitInfo |-> FALSE,
                   fault |-> NoFault]

InnerSpec == InnerInit /\ [][Next]_vars

(***************************************************************************)
(* Properties.                                                             *)
(***************************************************************************)
\* the frames of the directories being processed
Frames == {stack[i] : i \in 1..Len(stack)}

Written == {written[i] : i \in 1..Len(written)}

\* a configured asset path without its leading "/"
StripSlash(path) == IF HasSlashPrefix(path) THEN Tail(path) ELSE path

\* n times "../" before the configured asset path; an external URL as it is
ExpectedAsset(path, n) ==
    IF HasHTTPPrefix(path) THEN path ELSE Ups(n) \o StripSlash(path)

\* the number of leading "../" of a path
LeadingUps(path) == Len(path) - Len(StripUps(path))

InBlog(outputDir) == BlogIndex(outputDir) > 0

\* the directory the shared assets live in: the output directory of the
\* build's input, and for a build inside the blog the directory above "blog"
AssetRoot ==
    IF InBlog(cfg.OutputDir) THEN RootOutputDir(cfg.OutputDir) ELSE cfg.OutputDir

\* the source directory an output directory mirrors
SourceDir(outputDir) ==
    SubSeq(outputDir, Len(cfg.OutputDir) - Len(cfg.entry) + 1, Len(outputDir))

IsPageOrIndex(w) == w.kind \in {"page", "landing", "index"}

\* C1: in a recursive build the CSS and JS paths of every page and every
\* directory index, resolved against the page's output directory, are the
\* asset files under the output root, and the number of leading "../" is the
\* number of levels between the page's directory and the output root.
C1_AssetsResolveToRoot ==
    cfg.Recursive =>
        \A w \in Written :
            IsPageOrIndex(w) /\ ~HasHTTPPrefix(cfg.CSSPath) =>
                /\ Resolve(w.for, w.css) = AssetRoot \o StripSlash(cfg.CSSPath)
                /\ LeadingUps(w.css) = Len(w.for) - Len(AssetRoot)

\* C2: every non-blog directory processed at depth d gets d times "../"
\* before the configured asset path (leading "/" stripped), and an http(s)
\* URL unchanged, as the input directory and when reached by recursion.
C2_GenericAssetPrefix ==
    \A f \in Frames :
        ~InBlog(f.config.OutputDir) =>
            /\ f.config.CSSPath = ExpectedAsset(cfg.CSSPath, f.depth)
            /\ f.config.JSPath = ExpectedAsset(cfg.JSPath, f.depth)

IsBlogCategory(outputDir) ==
    InBlog(outputDir) /\ Len(BlogComponents(outputDir)) = 2

IsBlogNested(outputDir) ==
    InBlog(outputDir) /\ Len(BlogComponents(outputDir)) > 2

\* C4: a directory with n > 1 segments after the first "blog" gets exactly n
\* times "../", the same as the input directory, by recursion and from
\* adjustPaths.
C4_BlogNestedPrefix ==
    \A f \in Frames :
        IsBlogNested(f.config.OutputDir) /\ ~HasHTTPPrefix(cfg.CSSPath) =>
            /\ LeadingUps(f.config.CSSPath) = Len(BlogComponents(f.config.OutputDir)) - 1
            /\ LeadingUps(adjustPaths(f.config, f.depth, f.config.OutputDir).CSSPath)
                 = LeadingUps(f.config.CSSPath)

\* C5: the input directory is processed at depth 0 and a non-blog directory
\* k levels below it at depth k, with the back URL of that depth, in
\* recursive and non-recursive mode and for every working directory.
C5_DepthFromInputDirectory ==
    /\ \A f \in Frames :
          ~InBlog(f.config.OutputDir) => f.depth = Len(f.dir) - Len(cfg.entry)
    /\ \A w \in Written :
          w.kind = "index" /\ ~InBlog(w.for) =>
              w.back = calculateBackURL(Len(w.for) - Len(cfg.OutputDir))

\* the BlogPost records that exist: in the lists of the active processFiles
\* calls and in the list just returned
PostsNow == UNION {Range(f.blogPosts) : f \in Frames} \cup Range(ret.posts)

\* C6 as claimed: no field of a BlogPost changes after its creation.
C6_PostsNeverChange ==
    [][\A p \in PostsNow : \A q \in PostsNow' :
          q.FilePath = p.FilePath => q = p]_vars

\* C6: every field of a BlogPost other than Link keeps its value; Link
\* changes only when the list a subdirectory returned is merged into its
\* parent, which prepends the subdirectory's name.
C6_OnlyLinkChanges ==
    [][\A p \in PostsNow : \A q \in PostsNow' :
          q.FilePath = p.FilePath =>
              /\ [q EXCEPT !.Link = p.Link] = p
              /\ \/ q.Link = p.Link
                 \/ ret.valid /\ ~ret'.valid /\ p \in Range(ret.posts)
                    /\ q.Link = <<ret.name>> \o p.Link]_vars

\* C6 witness: a returned list has been merged into its parent.
C6_Witness ==
    \E f \in Frames : \E p \in Range(f.blogPosts) : Len(p.Link) > 1

TagIndexes == {i \in 1..Len(written) : written[i].kind = "tagsindex"}

\* the blog root has been processed and has a post
BlogRootBuilt ==
    \E w \in Written :
        w.kind = "page" /\ InBlog(w.for) /\ Len(BlogComponents(w.for)) = 1

\* C7: with a post in the blog, the tag pages and the tag overview are
\* generated once, for the blog root, under the blog root's tags directory.
C7_TagsOnceAtBlogRoot ==
    /\ Cardinality(TagIndexes) <= 1
    /\ \A w \in Written :
          w.kind \in {"tag", "tagsindex"} =>
              /\ InBlog(w.for) /\ Len(BlogComponents(w.for)) = 1
              /\ Front(w.path) = Append(w.for, "tags")
    /\ (pc = "done" /\ BlogRootBuilt => Cardinality(TagIndexes) = 1)

\* the directories that get a feed: the blog root, a first-level category,
\* and the build's input directory when it lies inside the blog
IsFeedDir(outputDir) ==
    /\ InBlog(outputDir)
    /\ Len(BlogComponents(outputDir)) \in {1, 2} \/ outputDir = cfg.OutputDir

\* the documents converted at or below an output directory that became posts
BuiltBelow(outputDir) ==
    {w.src : w \in {x \in Written : /\ x.kind \in {"page", "landing"}
                                    /\ IsPrefix(outputDir, x.for)
                                    /\ Last(x.src) \notin {"index.md", "index.markdown"}}}

FeedsFor(outputDir) ==
    {i \in 1..Len(written) : written[i].kind = "feed" /\ written[i].for = outputDir}

\* the feed directories at or above a page's directory, as far as the build
\* processed them
FeedDirsAbove(w) ==
    {SubSeq(w.for, 1, n) : n \in {m \in 1..Len(w.for) :
        /\ IsFeedDir(SubSeq(w.for, 1, m))
        /\ IsPrefix(cfg.OutputDir, SubSeq(w.for, 1, m))}}

\* C8: a feed holds exactly the posts converted at or below its directory,
\* each once, so a post below a category is in no other category's feed; with
\* feeds enabled, when the build ends every post has exactly one feed of the
\* blog root, one of its category and one of the directory it lies in when
\* that directory gets a feed, as far as the build processed them.
C8_FeedsHoldTheirSubtree ==
    /\ \A w \in Written :
          w.kind = "feed" =>
              /\ IsFeedDir(w.for)
              /\ {w.posts[i].FilePath : i \in DOMAIN w.posts} = BuiltBelow(w.for)
              /\ \A i, j \in DOMAIN w.posts :
                    w.posts[i].FilePath = w.posts[j].FilePath => i = j
    /\ (pc = "done" /\ cfg.GenerateRSS =>
          \A w \in Written :
              w.kind \in {"page", "landing"} /\ w.src \in BuiltBelow(w.for) =>
                  \A d \in FeedDirsAbove(w) : Cardinality(FeedsFor(d)) = 1)

\* C8 witness: a build that wrote the feed of the blog root and the feeds of
\* two categories, the root's feed holding more posts than a category's.
C8_Witness ==
    /\ pc = "done"
    /\ \E r, c, d \in Written :
          /\ r.kind = "feed" /\ c.kind = "feed" /\ d.kind = "feed"
          /\ Len(BlogComponents(r.for)) = 1
          /\ Len(BlogComponents(c.for)) = 2 /\ Len(BlogComponents(d.for)) = 2
          /\ c.for # d.for
          /\ Len(r.posts) > Len(c.posts) + Len(d.posts)
          /\ Len(c.posts) > 1

\* a source directory without subdirectories and without a document that
\* becomes a post
EmptyDirectory(dir) ==
    \A e \in Range(ReadDir(dir)) :
        ~e.isDir /\ ~(IsMarkdown(e) /\ ~IsIndexName(e))

Listings == {"index", "search", "feed", "tag", "tagsindex"}

\* C9: for a directory with no qualifying post and no subdirectory no index,
\* no search index, no feed and no tag page is written.
C9_NothingForEmptyDirectory ==
    \A w \in Written :
        w.kind \in Listings => ~EmptyDirectory(SourceDir(w.for))

\* C9 witness: a build with feeds and lists enabled that went through every
\* directory, the empty ones included, and wrote listings for the others.
C9_Witness ==
    /\ pc = "done"
    /\ cfg.entry = <<>> /\ cfg.Recursive /\ cfg.GenerateRSS /\ cfg.GenerateList
    /\ \E d \in Dirs : EmptyDirectory(d) /\ InBlog(d) /\ Len(BlogComponents(d)) = 1
    /\ \E d \in Dirs : EmptyDirectory(d) /\ IsBlogCategory(d)
    /\ \E d \in Dirs : EmptyDirectory(d) /\ ~InBlog(d)
    /\ \A k \in Listings : \E w \in Written : w.kind = k

\* the feed item date the claim allows for a page date: that date
ClaimedPubDate(date) ==
    IF Parses(date) THEN [kind |-> "date", day |-> DayNum(date)]
    ELSE [kind |-> "empty", day |-> 0]

\* the feed item date for a page date: that date; none for a date that is not
\* of the form 2006-01-02; the time of the build for a page without date
ActualPubDate(date) ==
    IF date = "" THEN [kind |-> "now", day |-> now] ELSE ClaimedPubDate(date)

\* the dates shown for the document of a page w in the listings, against
\* the page's date and the feed date expected(w.date)
DatesAgree(w, expected(_)) ==
    /\ \A p \in PostsNow : p.FilePath = w.src => p.Date = w.date
    /\ \A a \in Written :
          a.kind \in {"index", "search", "feed"} =>
              \A i \in DOMAIN a.posts :
                  a.posts[i].FilePath = w.src =>
                      /\ a.posts[i].Date = w.date
                      /\ (a.kind = "feed" => a.pub[i] = expected(w.date))

\* C10 as claimed: the date of a page is the Date of its BlogPost, of its
\* index entry and of its search-index entry, and its feed item shows that
\* date and no other.
C10_OneDateEverywhere ==
    \A w \in Written : w.kind = "page" => DatesAgree(w, ClaimedPubDate)

\* C10: the date of a page is the Date of its BlogPost, of its index entry
\* and of its search-index entry; its feed item shows that date when it has
\* the form 2006-01-02, no date when it has another form, and the time of the
\* build when the page has no date.
C10_DatesAgree ==
    \A w \in Written : w.kind = "page" => DatesAgree(w, ActualPubDate)

\* C10 witness: a feed with an item dated from the history of its file, an
\* item without date and an item whose date has another form.
C10_Witness ==
    /\ \E a \in Written :
          /\ a.kind = "feed"
          /\ \E i \in DOMAIN a.pub : a.pub[i].kind = "now"
          /\ \E i \in DOMAIN a.pub :
                /\ a.pub[i].kind = "date"
                /\ EntryOf(a.posts[i].FilePath).date = ""
          /\ \E i \in DOMAIN a.pub : a.pub[i].kind = "empty"

\* the documents without a front-matter Date whose file has history
HasHistoryOnly(filePath) ==
    EntryOf(filePath).date = "" /\ EntryOf(filePath).git.ok

\* C11: for a document without Date in its front matter whose file has
\* history, the date of the page is the day of the last commit, and that
\* string is the Date of its index entry and the date of its feed item.
C11_HistoryDateEverywhere ==
    \A w \in Written :
        w.kind = "page" /\ HasHistoryOnly(w.src) =>
            /\ w.date = EntryOf(w.src).git.day
            /\ \A a \in Written :
                  a.kind \in {"index", "feed"} =>
                      \A i \in DOMAIN a.posts :
                          a.posts[i].FilePath = w.src =>
                              /\ a.posts[i].Date = EntryOf(w.src).git.day
                              /\ (a.kind = "feed" =>
                                    a.pub[i] = ClaimedPubDate(EntryOf(w.src).git.day))

\* the blog root above an output directory inside the blog
BlogRootOf(outputDir) == SubSeq(outputDir, 1, BlogIndex(outputDir))

\* the documents converted at or below a directory that carry a tag
TaggedBelow(outputDir, tag) ==
    {src \in BuiltBelow(outputDir) : tag \in Range(EntryOf(src).tags)}

\* a list of posts is ordered newest first, as far as its dates are dates
NewestFirst(posts) ==
    \A i, j \in DOMAIN posts :
        i < j /\ Parses(posts[i].Date) /\ Parses(posts[j].Date) =>
            DayNum(posts[i].Date) >= DayNum(posts[j].Date)

\* the output tree holds exactly one page of the tag, listing the posts of
\* `expected` once each and newest first, and one overview with one entry
\* for the tag that counts them
TagPublished(tag, expected) ==
    /\ Cardinality({f \in Files : f.kind = "tag" /\ f.tags[1].Name = tag}) = 1
    /\ \A f \in Files :
          f.kind = "tag" /\ f.tags[1].Name = tag =>
              /\ {f.posts[i].FilePath : i \in DOMAIN f.posts} = expected
              /\ Len(f.posts) = Cardinality(expected)
              /\ NewestFirst(f.posts)
    /\ Cardinality({f \in Files : f.kind = "tagsindex"}) = 1
    /\ \A f \in Files :
          f.kind = "tagsindex" =>
              /\ Cardinality({i \in DOMAIN f.tags : f.tags[i].Name = tag}) = 1
              /\ \A i \in DOMAIN f.tags :
                    f.tags[i].Name = tag => f.tags[i].Count = Cardinality(expected)

\* C12: when a build that processed the blog root ends, every tag carried by
\* k >= 1 posts of the blog has exactly one tag page, listing those k posts
\* once each, newest first, and one entry with count k in the one overview.
C12_OneTagPagePerTag ==
    pc = "done" =>
        \A w \in Written :
            /\ w.kind = "page" /\ InBlog(w.for)
            /\ IsPrefix(cfg.OutputDir, BlogRootOf(w.for))
            => \A t \in Range(EntryOf(w.src).tags) :
                  TagPublished(t, TaggedBelow(BlogRootOf(w.for), t))

\* a browser resolving an href against the directory of the page
ResolveHref(dir, href) == Resolve(dir, SelectSeq(href, LAMBDA x : x # "."))

\* the output file of a document of the build
OutputFileOf(dir, e) == Append(OutputDirOf(dir), HtmlName(e.stem))

\* C13: the href emitted for a reference from document A to document B,
\* joined with A's output directory, is B's output file, and the href from B
\* to A joined with B's output directory is A's output file.
C13_LinksRoundTrip ==
    pc = "linked" =>
        \A r \in Written :
            /\ ResolveHref(OutputDirOf(r.aDir), r.hrefAB) = OutputFileOf(r.bDir, r.b)
            /\ ResolveHref(OutputDirOf(r.bDir), r.hrefBA) = OutputFileOf(r.aDir, r.a)

\* where a reference points in the source tree: from the directory of the
\* referencing document, and from the input directory when it starts with "/"
TargetOf(link, aDir) ==
    IF link.abs THEN cfg.entry \o link.path
    ELSE CleanFrom(<<>>, aDir \o link.path)

\* C14: a reference without leading "/" is resolved from the directory of
\* the referencing document, one with leading "/" from the input root, and
\* the href is the relative path from the document's output directory to
\* the output location of that target.
C14_LinkResolution ==
    pc = "linked" =>
        \A r \in Written :
            LET target == TargetOf(r.refAB, r.aDir)
            IN  SelectSeq(r.hrefAB, LAMBDA x : x # ".")
                  = Rel(OutputDirOf(r.aDir), OutputDirOf(Front(target)))
                      \o <<HtmlFile(Last(target))>>

\* a file without the feed's lastBuildDate
SansBuildDate(f) == [f EXCEPT !.built = 0]

\* a file without lastBuildDate and without the pubDate of the feed items
\* whose post has no date
SansBuildTime(f) ==
    [f EXCEPT !.built = 0,
              !.pub = [i \in DOMAIN @ |->
                         IF @[i].kind = "now" THEN [kind |-> "now", day |-> 0]
                         ELSE @[i]]]

SecondBuildDone == pc = "done" /\ now = 2

\* C15 as claimed: the second build of an unchanged tree leaves the same
\* files with the same contents, lastBuildDate of the feeds apart.
C15_SameOutputTwice ==
    SecondBuildDone =>
        {SansBuildDate(f) : f \in Tree} = {SansBuildDate(f) : f \in earlier}

\* C15: the second build of an unchanged tree leaves the same files with the
\* same contents, apart from lastBuildDate of the feeds and from the pubDate
\* of the feed items whose post has no date, which is the time of the build.
C15_SameOutputButBuildTime ==
    SecondBuildDone =>
        /\ {f.path : f \in Tree} = {f.path : f \in earlier}
        /\ {SansBuildTime(f) : f \in Tree} = {SansBuildTime(f) : f \in earlier}

\* C15 witness: a second build has ended that wrote tag pages, an index and
\* a feed with an item of a post without date.
C15_Witness ==
    /\ SecondBuildDone
    /\ \E f \in Tree : f.kind = "feed" /\ \E i \in DOMAIN f.pub : f.pub[i].kind = "now"
    /\ \E f \in Tree : f.kind = "tagsindex"
    /\ \E f \in Tree : f.kind = "index" /\ Len(f.posts) > 1

\* the positions of the log
Positions == 1..Len(written)

\* a list holds exactly the documents of a set, each once
ListsExactly(posts, sources) ==
    /\ {posts[i].FilePath : i \in DOMAIN posts} = sources
    /\ Len(posts) = Cardinality(sources)

\* C16: whatever is written for a directory from its post list (index,
\* search index, feed, tag pages, tag overview) is written after every file
\* of the directories below it, and the list it is computed from holds the
\* documents converted in the directory and below it, each once.
C16_ListingsAfterSubtree ==
    \A i \in Positions :
        written[i].kind \in Listings =>
            /\ \A j \in Positions :
                  /\ IsPrefix(written[i].for, written[j].for)
                  /\ written[j].for # written[i].for \/ written[j].kind \in {"page", "landing"}
                  => j < i
            /\ written[i].kind \in {"index", "search", "feed"} =>
                  ListsExactly(written[i].posts, BuiltBelow(written[i].for))
            /\ written[i].kind = "tag" =>
                  ListsExactly(written[i].posts,
                               TaggedBelow(written[i].for, written[i].tags[1].Name))
            /\ written[i].kind = "tagsindex" =>
                  /\ {written[i].tags[k].Name : k \in DOMAIN written[i].tags}
                       = UNION {Range(EntryOf(src).tags) :
                                  src \in BuiltBelow(written[i].for)}
                  /\ \A k \in DOMAIN written[i].tags :
                        written[i].tags[k].Count
                          = Cardinality(TaggedBelow(written[i].for, written[i].tags[k].Name))

\* C16 witness: a recursive build has ended in which the index of the input
\* directory lists posts of directories two levels below, and the blog root
\* got its feed and its tag pages.
C16_Witness ==
    /\ pc = "done"
    /\ \E w \in Written :
          /\ w.kind = "index" /\ w.for = cfg.OutputDir
          /\ \E i \in DOMAIN w.posts : Len(w.posts[i].Link) > 2
    /\ \E w \in Written : w.kind = "feed" /\ Len(BlogComponents(w.for)) = 1
    /\ \E w \in Written : w.kind = "tag" /\ Len(w.posts) > 1

FeedOrTag == {"feed", "tag", "tagsindex"}

\* C17: a feed or a tag page that cannot be generated is reported as a
\* warning, whichever directory it belongs to and whether ConvertDirectory
\* was started at that directory or reached it by recursion; it is never the
\* error ConvertDirectory returns.
C17_FeedAndTagFailuresOnlyWarn ==
    /\ \A i \in 1..Len(log) :
          log[i].what \in FeedOrTag => log[i].level = "warning"
    /\ pc = "failed" => Last(log).what \notin FeedOrTag

\* the same for the directories reached by recursion only
C17_RecursionOnlyWarns ==
    \A i \in 1..Len(log) :
       log[i].what \in FeedOrTag /\ Front(log[i].path) # cfg.OutputDir
          => log[i].level = "warning"

Documents == {"page", "landing"}

\* the documents ConvertFile or ConvertLandingPage is called for in a directory
RenderedIn(dir) ==
    {e \in Range(ReadDir(dir)) :
        /\ IsMarkdown(e)
        /\ \/ ~(IsIndexName(e) /\ LandingSeen(e, SrcRoot \o dir \o <<e.name>>))
           \/ dir = cfg.entry /\ e.name = "index.md"}

Renders(dir, e) ==
    /\ ~Unreadable(SrcRoot \o dir \o <<e.name>>)
    /\ ~Unwritable(ConvertFile(e, SrcRoot \o dir \o <<e.name>>,
                      [OutputDir |-> OutputDirOf(dir), CSSPath |-> <<>>,
                       JSPath |-> <<>>]).path)

DocumentFailed == pc = "failed" /\ Last(log).what \in Documents

C18_AfterFailure ==
    /\ pc = "done" => \A d \in BuildDirs : \A e \in RenderedIn(d) : Renders(d, e)
    /\ DocumentFailed =>
          /\ stack = <<>>
          /\ \A w \in Written :
                w.kind \in Listings => ~IsPrefix(w.for, Front(Last(log).path))

C18_FailureStep ==
    /\ pc # "failed"
    /\ DocumentFailed' => written' = written
    /\ IsPrefix(written, written')

\* C18: when a document cannot be rendered, ConvertDirectory returns an error:
\* a build that finishes has rendered every document it went through; after
\* the failure nothing more is written; no index, search index, feed or tag
\* page exists for the directory of the document or for a directory above it;
\* what was written before the failure stays.
C18_RenderFailureAborts == [](C18_AfterFailure) /\ [][C18_FailureStep]_vars

\* C18 witness: the build failed at a document after it had written the index
\* of a directory it had finished before
C18_Witness ==
    /\ DocumentFailed
    /\ \E w \in Written : w.kind = "index"
    /\ \E w \in Written : w.kind = "feed"

\* the index files of a directory that are not landing pages
OwnIndexFiles(dir) ==
    {e \in Range(ReadDir(dir)) : IsMarkdown(e) /\ IsIndexName(e) /\ ~e.landing}

\* the post lists there are: those of the calls in progress, the one just
\* returned, and those of the files written from a post list
PostLists ==
    {f.blogPosts : f \in Frames} \cup {ret.posts}
    \cup {w.posts : w \in {x \in Written : x.kind \in Listings}}

\* the second pass of the call f has gone past the entry e
Passed(f, e) == e \notin Range(f.todo)

\* C19: an index.md or index.markdown that is not a landing page is rendered
\* with the page template once the second pass of its directory has reached
\* it, and it is in no post list: not in the list of its directory or of a
\* directory above, and so in no index, search index, feed or tag page.
C19_IndexFileRenderedNotListed ==
    /\ \A f \in Frames : \A e \in OwnIndexFiles(f.dir) :
          Passed(f, e) =>
             \E w \in Written : /\ w.kind = "page"
                                /\ w.src = SrcRoot \o f.dir \o <<e.name>>
                                /\ w.for = f.config.OutputDir
    /\ pc = "done" =>
          \A d \in BuildDirs : \A e \in OwnIndexFiles(d) :
             \E w \in Written : /\ w.kind = "page"
                                /\ w.src = SrcRoot \o d \o <<e.name>>
    /\ \A posts \in PostLists : \A i \in DOMAIN posts :
          ~IsIndexName(EntryOf(posts[i].FilePath))

\* C19 witness: a recursive build with lists has ended that rendered the
\* index.md of a directory and wrote an index and a search index for that
\* directory with the posts of the directory and of those below it.
C19_Witness ==
    /\ pc = "done"
    /\ \E w \in Written :
          /\ w.kind = "page" /\ Last(w.src) = "index.md"
          /\ \E x \in Written : x.kind = "index" /\ x.for = w.for
                                  /\ Len(x.posts) > 2
          /\ \E x \in Written : x.kind = "search" /\ x.for = w.for
                                  /\ Len(x.posts) > 2

\* the index files of a directory that carry Template: landing
LandingIndexFiles(dir) ==
    {e \in Range(ReadDir(dir)) : IsMarkdown(e) /\ IsIndexName(e) /\ e.landing}

\* C20: for a directory that holds an index.md or index.markdown with the
\* landing template no generic index (index.html with its search index) is
\* generated, also when the directory holds both files and only one of them
\* is a landing page.
C20_NoGenericIndexBesideLanding ==
    \A w \in Written :
        w.kind \in {"index", "search"} => LandingIndexFiles(SourceDir(w.for)) = {}

\* the same for the directories that hold one index file only
C20_SingleIndexFile ==
    \A w \in Written :
        /\ w.kind \in {"index", "search"}
        /\ Cardinality({e \in Range(ReadDir(SourceDir(w.for))) : IsIndexName(e)}) < 2
        => LandingIndexFiles(SourceDir(w.for)) = {}

\* C21: a document whose front-matter selects the landing-page template is in
\* no post list, whatever its name and directory: not in the list of a call in
\* progress, and in no index, search index, feed or tag page.
C21_LandingNeverListed ==
    \A posts \in PostLists : \A i \in DOMAIN posts :
        ~EntryOf(posts[i].FilePath).landing

\* the same for the landing pages that are the index file of their directory
C21_LandingIndexNeverListed ==
    \A posts \in PostLists : \A i \in DOMAIN posts :
        ~(EntryOf(posts[i].FilePath).landing /\ IsIndexName(EntryOf(posts[i].FilePath)))

\* the effective date of a document: the time of its last change in the
\* history when it has one, else its front-matter date when that is a date,
\* else none (0)
EffectiveTime(filePath) ==
    LET e == EntryOf(filePath)
    IN  IF e.git.ok THEN DayNum(e.git.day) * 100 + e.git.sec
        ELSE IF Parses(e.date) THEN DayNum(e.date) * 100
        ELSE 0

\* the order of the directory names (Go's < on strings), as ranks
DirRank(name) ==
    CASE name = "Deep" -> 1
      [] name = "Empty" -> 2
      [] name = "Er" -> 3
      [] name = "Linux" -> 4
      [] name = "Nim" -> 5
      [] name = "a" -> 6
      [] name = "b" -> 7
      [] name = "blog" -> 8
      [] name = "c" -> 9
      [] name = "d" -> 10
      [] name = "old" -> 11
      [] OTHER -> 12

\* C22: in every generated directory index the posts are in the order of
\* their effective dates, newest first, the posts without a date after all
\* posts with one, and the subdirectories in ascending order of their names.
C22_IndexOrder ==
    \A w \in Written :
        w.kind = "index" =>
            /\ \A i, j \in DOMAIN w.posts :
                  i < j => EffectiveTime(w.posts[i].FilePath)
                             >= EffectiveTime(w.posts[j].FilePath)
            /\ \A i, j \in DOMAIN w.posts :
                  /\ EffectiveTime(w.posts[i].FilePath) = 0
                  /\ EffectiveTime(w.posts[j].FilePath) > 0
                  => j < i
            /\ \A i, j \in DOMAIN w.dirs :
                  i < j => DirRank(w.dirs[i]) < DirRank(w.dirs[j])

\* C22 witness: an index was written that lists several subdirectories and,
\* among its posts, one dated by the history against its front-matter, and
\* one without a date.
C22_Witness ==
    \E w \in Written :
        /\ w.kind = "index"
        /\ Len(w.dirs) > 2
        /\ \E i \in DOMAIN w.posts :
              /\ EntryOf(w.posts[i].FilePath).git.ok
              /\ EntryOf(w.posts[i].FilePath).date # EntryOf(w.posts[i].FilePath).git.day
        /\ \E i \in DOMAIN w.posts : EffectiveTime(w.posts[i].FilePath) = 0

\* C23: inside the blog sub-tree the back URL of every generated index leads
\* to the index of the directory one level up (the blog root from a category,
\* the directory above the blog from the blog root, the parent from a nested
\* directory), whatever depth processFiles was called with.
C23_BlogBackURLToParent ==
    \A w \in Written :
        w.kind = "index" /\ InBlog(w.for) =>
            Resolve(w.for, w.back) = Append(Front(w.for), "index.html")

\* C23 witness: a build started above the blog wrote the index of the blog
\* root, of a category and of a directory nested below a category.
C23_Witness ==
    /\ ~InBlog(cfg.OutputDir)
    /\ \A n \in 1..3 :
          \E w \in Written : w.kind = "index" /\ Len(BlogComponents(w.for)) = n

\* the 0-based position of the first "-->" after the opening "<!--", -1 when
\* the content does not begin with a comment that is closed
BlockEnd(content) ==
    LET ends == {i \in Occurrences(content, Close) : i >= Len(Open)}
    IN  IF HasPrefix(content, Open) /\ ends # {}
        THEN CHOOSE i \in ends : \A j \in ends : i <= j
        ELSE -1

\* the lines of the block that have a colon, each as key and value
KeyValueLines(content) ==
    LET lines == Split(SubSeq(content, Len(Open) + 1, BlockEnd(content)), "\n")
    IN  {[key |-> TrimSpace(SubSeq(lines[n], 1, Index(lines[n], <<":">>))),
          value |-> TrimSpace(SubSeq(lines[n], Index(lines[n], <<":">>) + 2,
                                     Len(lines[n])))] :
           n \in {m \in DOMAIN lines : ":" \in Range(lines[m])}}

\* C24: for content that does not begin with a terminated "<!-- ... -->"
\* block extractMetadata returns an empty map and the content unchanged;
\* otherwise the map holds, for the "key: value" lines of the block, the key
\* with the trimmed rest of the line after the first colon, lines without a
\* colon left out, and the body is what follows the block.
C24_ExtractMetadata ==
    \A w \in Written :
        w.kind = "metadata" =>
            /\ ~w.out.panic
            /\ IF BlockEnd(w.content) = -1
               THEN w.out.metadata = NoMetadata /\ w.out.body = w.content
               ELSE /\ DOMAIN w.out.metadata
                         = {l.key : l \in KeyValueLines(w.content)}
                    /\ \A k \in DOMAIN w.out.metadata :
                          \E l \in KeyValueLines(w.content) :
                             l.key = k /\ l.value = w.out.metadata[k]
                    /\ w.out.body = SubSeq(w.content, BlockEnd(w.content) + 4,
                                           Len(w.content))

\* the same where the end of the comment does not overlap its beginning
C24_WhereNoOverlap ==
    \A w \in Written :
        w.kind = "metadata" /\ ~w.out.panic =>
            IF BlockEnd(w.content) = -1
            THEN w.out.metadata = NoMetadata /\ w.out.body = w.content
            ELSE /\ DOMAIN w.out.metadata
                      = {l.key : l \in KeyValueLines(w.content)}
                 /\ \A k \in DOMAIN w.out.metadata :
                       \E l \in KeyValueLines(w.content) :
                          l.key = k /\ l.value = w.out.metadata[k]
                 /\ w.out.body = SubSeq(w.content, BlockEnd(w.content) + 4,
                                        Len(w.content))

\* C25: in every feed, of two items whose posts both have a date of the form
\* YYYY-MM-DD the one with the later date comes first, whatever the order of
\* the posts was and however many of them have no such date.
C25_FeedNewestFirst ==
    \A w \in Written :
        w.kind = "feed" =>
            \A i, j \in DOMAIN w.posts :
                /\ Parses(w.posts[i].Date) /\ Parses(w.posts[j].Date)
                /\ DayNum(w.posts[i].Date) > DayNum(w.posts[j].Date)
                => i < j

\* the same for the feeds all of whose posts have such a date
C25_AllDatedNewestFirst ==
    \A w \in Written :
        w.kind = "feed" /\ (\A k \in DOMAIN w.posts : Parses(w.posts[k].Date)) =>
            \A i, j \in DOMAIN w.posts :
                DayNum(w.posts[i].Date) > DayNum(w.posts[j].Date) => i < j

\* the Link of a listed post leads, from the directory of the listing, to the
\* file the post's document was rendered to
LinkLeadsToPage(w, post) ==
    \E page \in Written :
        /\ page.kind \in Documents
        /\ page.src = post.FilePath
        /\ page.path = Resolve(w.for, post.Link)

\* C26: in every directory index and search index the Link of each listed
\* post, resolved against the directory of the listing, is the path of the
\* post's output file; the Link of a post that came up from a directory
\* below names every directory in between.
C26_LinksLeadToPages ==
    \A w \in Written :
        w.kind \in {"index", "search"} =>
            \A i \in DOMAIN w.posts : LinkLeadsToPage(w, w.posts[i])

\* the same for the posts rendered with the page template
C26_PageLinksLeadToPages ==
    \A w \in Written :
        w.kind \in {"index", "search"} =>
            \A i \in DOMAIN w.posts :
                ~EntryOf(w.posts[i].FilePath).landing => LinkLeadsToPage(w, w.posts[i])

\* what wrote an output file: the kind of generator and the document
Producer(w) == <<w.kind, w.src>>

\* C27: during one build no output path is written by two producers: two
\* documents never share an output file, and a page rendered from a document
\* is not overwritten by a generated index or by a landing page.
C27_OneProducerPerPath ==
    \A i, j \in 1..Len(written) :
        written[i].path = written[j].path => Producer(written[i]) = Producer(written[j])

\* the same for the output files other than index.html
C27_PlainDirectories ==
    \A i, j \in 1..Len(written) :
        /\ written[i].path = written[j].path
        /\ Last(written[i].path) # "index.html"
        => Producer(written[i]) = Producer(written[j])

\* the number of times a document was rendered
TimesRendered(filePath) ==
    Cardinality({i \in 1..Len(written) : /\ written[i].kind \in Documents
                                          /\ written[i].src = filePath})

\* C28: when a recursive build has ended, every .md and .markdown file of
\* the source tree below the input directory was rendered once, an index file
\* with the landing-page template in a directory below the input directory
\* included.
C28_EveryDocumentRenderedOnce ==
    pc = "done" /\ cfg.Recursive =>
        \A d \in BuildDirs : \A e \in Range(ReadDir(d)) :
            IsMarkdown(e) => TimesRendered(SrcRoot \o d \o <<e.name>>) = 1

\* the same without the landing-page index files below the input directory
C28_AllButLandingIndexFiles ==
    pc = "done" /\ cfg.Recursive =>
        \A d \in BuildDirs : \A e \in Range(ReadDir(d)) :
            IsMarkdown(e) /\ ~(e.landing /\ IsIndexName(e) /\ d # cfg.entry)
               => TimesRendered(SrcRoot \o d \o <<e.name>>) = 1

\* Directory.Link of a listed subdirectory, from the directory of the index
SubdirectoryLink(w, name) == w.for \o <<name, "index.html">>

\* C29: every subdirectory listed in a generated directory index links to an
\* index.html that the same build has written: a subdirectory the build did
\* not go through, or one for which it wrote no index, is not listed.
C29_ListedSubdirectoriesHaveIndex ==
    \A w \in Written :
        w.kind = "index" =>
            \A k \in DOMAIN w.dirs :
                \E x \in Written : x.path = SubdirectoryLink(w, w.dirs[k])

\* the segment of an output path the asset prefix, the back URL, the feeds,
\* the feed's own URL and the tag pages take for the blog root, and the one
\* the full URL of a post takes for it
BlogRootAgreed(outputDir) == BlogIndex(outputDir) = BlogRootIndex(outputDir)

\* C30: for every output path the places that decide the position in the
\* blog take the same segment for the blog root, also when the path has more
\* than one segment named "blog": the directory of a feed's own URL is then
\* the beginning of the full URL of each of its items.
C30_OneBlogRoot ==
    \A w \in Written :
        /\ BlogRootAgreed(w.for)
        /\ w.kind = "feed" =>
              \A i \in DOMAIN w.posts : IsPrefix(Front(w.self), w.posts[i].FullURL)

\* the same for the builds into an output directory whose own path has no
\* segment named "blog"
C30_PlainOutputDirectory ==
    "blog" \notin Range(SubSeq(cfg.OutputDir, 1, Len(cfg.OutputDir) - Len(cfg.entry))) =>
        \A w \in Written :
            /\ BlogRootAgreed(w.for)
            /\ w.kind = "feed" =>
                  \A i \in DOMAIN w.posts :
                      IsPrefix(Front(w.self), w.posts[i].FullURL)

====
